---- MODULE Spec2Model ----
(***************************************************************************)
(* Model of paykit-mobile/ios-demo/add_test_target.py: a script that reads *)
(* project.pbxproj, generates object identifiers, splices ten fixed text   *)
(* fragments at anchors found by re.search, and writes the file back.      *)
(*                                                                         *)
(* The file content is a sequence of tokens, each a piece of the text.     *)
(* Every object identifier, every '}', every 'children = (' and every '/'  *)
(* that opens or closes a comment is a token of its own, so that a regular *)
(* expression of the script matches exactly where its tokens match.        *)
(* origin is a history variable: for every token of content, its position  *)
(* in the text that was read, or minus the insertion step that built it.   *)
(***************************************************************************)
EXTENDS Integers, Sequences, FiniteSets, TLC

VARIABLES file, content, origin, prevFile, pc, ids, group_section,
          tape, calls, ret, exitStatus, writes, run

vars == <<file, content, origin, prevFile, pc, ids, group_section,
          tape, calls, ret, exitStatus, writes, run>>

-----------------------------------------------------------------------------
(* Bounds of the model *)

\* number of times the script is run on the same file
MaxRuns == 2
\* number of anchors that an input file may lack
MaxMissing == 2

-----------------------------------------------------------------------------
(* generate_id: uuid.uuid4().hex[:24].upper() *)

IdLen == 24

HexDigits == <<"0","1","2","3","4","5","6","7","8","9","a","b","c","d","e","f">>

UpperHexChars == {"0","1","2","3","4","5","6","7","8","9","A","B","C","D","E","F"}

\* os.urandom(16) for the n-th call, read from the entropy tape t
Urandom(t, n) == [i \in 1..16 |-> (t.add + t.mul * n + t.step * i) % 256]

\* uuid.UUID(bytes=..., version=4): the version and variant bits are forced
Uuid4(bytes) ==
    [i \in 1..16 |-> IF i = 7 THEN 64 + (bytes[i] % 16)
                     ELSE IF i = 9 THEN 128 + (bytes[i] % 64)
                     ELSE bytes[i]]

\* UUID.hex: '%032x' of the 128-bit integer, two digits per byte
Hex(bytes) ==
    [j \in 1..32 |-> IF j % 2 = 1 THEN HexDigits[(bytes[(j + 1) \div 2] \div 16) + 1]
                     ELSE HexDigits[(bytes[j \div 2] % 16) + 1]]

\* str.upper on one character
UpperChar(c) ==
    CASE c = "a" -> "A" [] c = "b" -> "B" [] c = "c" -> "C"
      [] c = "d" -> "D" [] c = "e" -> "E" [] c = "f" -> "F"
      [] OTHER -> c

Upper(s) == [j \in 1..Len(s) |-> UpperChar(s[j])]

\* mutant of generate_id: the call of upper() is left out
generate_id_NoUpper(bytes) == SubSeq(Hex(Uuid4(bytes)), 1, IdLen)

\* the characters of the string generate_id returns
generate_id(bytes) == Upper(SubSeq(Hex(Uuid4(bytes)), 1, IdLen))

\* a string, from its characters
RECURSIVE Str(_)
Str(chars) == IF chars = <<>> THEN "" ELSE chars[1] \o Str(Tail(chars))

\* the identifier returned by the n-th call of generate_id on tape t
NthId(t, n) == Str(generate_id(Urandom(t, n)))

-----------------------------------------------------------------------------
(* Hard-coded identifiers of the script and of the project file it edits *)

MainTargetId == "5224F5F42EED89A600A4DEB4"
MainGroupId == "5224F5EC2EED89A600A4DEB4"
ProductsGroupId == "5224F5F62EED89A600A4DEB4"
AppProductId == "5224F5F52EED89A600A4DEB4"
ProjectId == "5224F5ED2EED89A600A4DEB4"
AppSourcesId == "5224F5F12EED89A600A4DEB4"
AppFrameworksId == "5224F5F22EED89A600A4DEB4"
AppConfigListId == "5224F6012EED89A600A4DEB4"
AppDebugId == "5224F6022EED89A600A4DEB4"

-----------------------------------------------------------------------------
(* Tokens *)

\* a piece of text
T(k) == k
\* an object identifier, given as its text
IdTok(i) == i
\* the comment ' /* name */' that follows an identifier: its text and its last '/'
Comment(name) == << T(" /* " \o name \o " *"), T("/") >>
\* a section marker '/* Begin X section */' or '/* End X section */'
Marker(which, section) == << T("/"), T("* " \o which \o " " \o section \o " section *"), T("/") >>

Slash == T("/")
RBrace == T("}")
Children == T("children = (")
EqOpen == T(" = {")
Isa(section) == T("isa = " \o section \o ";")

Sections == {"PBXFileReference", "PBXFrameworksBuildPhase", "PBXGroup", "PBXNativeTarget",
             "PBXProject", "PBXSourcesBuildPhase", "XCBuildConfiguration", "XCConfigurationList"}

\* the origin of the text f.read() returns: every token at its own position
OriginOfFile(f) == [i \in 1..Len(f) |-> i]
\* the origin of a fragment built by insertion step st
OriginOfFragment(frag, st) == [i \in 1..Len(frag) |-> 0 - st]

-----------------------------------------------------------------------------
(* The ten text fragments the script builds (f-strings of add_test_target) *)

TestsComment == Comment("PaykitDemoTests")
XctestComment == Comment("PaykitDemoTests.xctest")
ConfigListComment == Comment("Build configuration list for PBXNativeTarget \"PaykitDemoTests\"")

\* test_file_ref
FileRefFragment(i) ==
    << T("\t\t"), IdTok(i.test_product_id) >> \o XctestComment \o
    << EqOpen, Isa("PBXFileReference"),
       T(" explicitFileType = wrapper.cfbundle; includeInIndex = 0; path = PaykitDemoTests.xctest; sourceTree = BUILT_PRODUCTS_DIR; "),
       RBrace, T(";\n") >>

\* test_group_ref
GroupRefFragment(i) ==
    << T("\t\t\t\t"), IdTok(i.test_group_id) >> \o TestsComment \o << T(",\n") >>

\* test_group_def
GroupDefFragment(i) ==
    << T("\t\t"), IdTok(i.test_group_id) >> \o TestsComment \o
    << EqOpen, Isa("PBXGroup"), Children, T(");"),
       T("path = PaykitDemoTests; sourceTree = \"<group>\";"), RBrace, T(";\n") >>

\* test_product_ref
ProductRefFragment(i) ==
    << T("\t\t\t\t"), IdTok(i.test_product_id) >> \o XctestComment \o << T(",\n") >>

\* test_sources_phase
SourcesPhaseFragment(i) ==
    << T("\t\t"), IdTok(i.test_sources_phase_id) >> \o Comment("Sources") \o
    << EqOpen, Isa("PBXSourcesBuildPhase"),
       T("buildActionMask = 2147483647; files = ( ); runOnlyForDeploymentPostprocessing = 0;"),
       RBrace, T(";\n") >>

\* test_frameworks_phase
FrameworksPhaseFragment(i) ==
    << T("\t\t"), IdTok(i.test_frameworks_phase_id) >> \o Comment("Frameworks") \o
    << EqOpen, Isa("PBXFrameworksBuildPhase"),
       T("buildActionMask = 2147483647; files = ( ); runOnlyForDeploymentPostprocessing = 0;"),
       RBrace, T(";\n") >>

\* test_target; dep is the value of the generate_id() call inside the f-string
NativeTargetFragment(i, dep) ==
    << T("\t\t"), IdTok(i.test_target_id) >> \o TestsComment \o
    << EqOpen, Isa("PBXNativeTarget"),
       T("buildConfigurationList = "), IdTok(i.test_build_config_list_id) >> \o ConfigListComment \o
    << T(";"), T("buildPhases = ("),
       IdTok(i.test_sources_phase_id) >> \o Comment("Sources") \o
    << T(","), IdTok(i.test_frameworks_phase_id) >> \o Comment("Frameworks") \o
    << T(","), T(");"), T("buildRules = ( );"), T("dependencies = ("),
       IdTok(dep) >> \o Comment("PBXTargetDependency") \o
    << T(","), T(");"),
       T("name = PaykitDemoTests; packageProductDependencies = ( ); productName = PaykitDemoTests;"),
       T("productReference = "), IdTok(i.test_product_id) >> \o XctestComment \o
    << T(";"), T("productType = \"com.apple.product-type.bundle.unit-test\";"),
       RBrace, T(";\n") >>

\* test_target_ref
TargetRefFragment(i) ==
    << T("\t\t\t\t"), IdTok(i.test_target_id) >> \o TestsComment \o << T(",\n") >>

BuildSettingsText == T("BUNDLE_LOADER = \"$(TEST_HOST)\"; ... TEST_HOST = \"$(BUILT_PRODUCTS_DIR)/PaykitDemo.app/$(BUNDLE_EXECUTABLE_FOLDER_PATH)/PaykitDemo\";")

\* one XCBuildConfiguration record of test_debug_config
BuildConfigRecord(cid, name) ==
    << T("\t\t"), IdTok(cid) >> \o Comment(name) \o
    << EqOpen, Isa("XCBuildConfiguration"), T("buildSettings = {"), BuildSettingsText,
       RBrace, T(";"), T("name = " \o name \o ";"), RBrace, T(";\n") >>

\* test_debug_config: the Debug record, the Release record and the configuration list
ConfigFragment(i) ==
    BuildConfigRecord(i.test_debug_config_id, "Debug") \o
    BuildConfigRecord(i.test_release_config_id, "Release") \o
    << T("\t\t"), IdTok(i.test_build_config_list_id) >> \o ConfigListComment \o
    << EqOpen, Isa("XCConfigurationList"), T("buildConfigurations = ("),
       IdTok(i.test_debug_config_id) >> \o Comment("Debug") \o
    << T(","), IdTok(i.test_release_config_id) >> \o Comment("Release") \o
    << T(","), T(");"),
       T("defaultConfigurationIsVisible = 0; defaultConfigurationName = Release;"),
       RBrace, T(";\n") >>

\* test_target_attrs
TargetAttrsFragment(i) ==
    << T("\t\t\t\t"), IdTok(i.test_target_id), EqOpen,
       T("CreatedOnToolsVersion = 26.1.1;"), T("TestTargetID = "), IdTok(MainTargetId),
       T(";"), RBrace, T(";\n") >>

-----------------------------------------------------------------------------
(* re.search on the token text *)

NoMatch == [found |-> FALSE, first |-> 0, last |-> 0]

\* pat occurs in c at token i, for i in 1..(Len(c) - Len(pat) + 1)
OccursAt(c, pat, i) ==
    /\ c[i] = pat[1]
    /\ \A j \in 2..Len(pat) : c[i + j - 1] = pat[j]

Min(S) == CHOOSE x \in S : \A y \in S : x <= y
Max(S) == CHOOSE x \in S : \A y \in S : y <= x

\* the leftmost of the positions hits where a match can start, 0 when there is none
Leftmost(hits) == IF hits = {} THEN 0 ELSE Min(hits)

\* the match from token first to token last, no match when first is 0
MatchAt(first, last) ==
    IF first = 0 THEN NoMatch ELSE [found |-> TRUE, first |-> first, last |-> last]

\* re.search of a literal pattern: the leftmost occurrence
SearchLiteral(c, pat) ==
    CHOOSE m \in {MatchAt(i, i + Len(pat) - 1) :
                    i \in {Leftmost({h \in 1..(Len(c) - Len(pat) + 1) : OccursAt(c, pat, h)})}} : TRUE

\* the first '}' after token j, or one past the end of the text
NextBrace(c, j) ==
    IF \E r \in (j + 1)..Len(c) : c[r] = RBrace
    THEN Min({r \in (j + 1)..Len(c) : c[r] = RBrace})
    ELSE Len(c) + 1

\* where  prefix[^}]+children = \(  can end when prefix occurs at token i:
\* [^}]+ takes at least one character and no '}'
GroupEnds(c, prefix, i) ==
    LET j == i + Len(prefix) - 1
    IN  {e \in (j + 2)..(NextBrace(c, j) - 1) : c[e] = Children}

\* re.search of  prefix[^}]+children = \( : the leftmost start, and from there
\* the longest [^}]+ (the quantifier is greedy)
SearchGroup(c, prefix) ==
    LET end(i) == IF i = 0 THEN 0 ELSE Max(GroupEnds(c, prefix, i))
    IN  CHOOSE m \in {MatchAt(i, end(i)) :
                        i \in {Leftmost({h \in 1..(Len(c) - Len(prefix) + 1) :
                                           OccursAt(c, prefix, h) /\ GroupEnds(c, prefix, h) # {}})}} : TRUE

\* match.start() and match.end() as text positions: the number of tokens before
StartPos(m) == m.first - 1
EndPos(m) == m.last

\* mutant of Insert: the slice after the fragment starts one token late
Insert_DropsOne(c, pos, frag) == SubSeq(c, 1, pos) \o frag \o SubSeq(c, pos + 2, Len(c))

\* content[:insert_pos] + fragment + content[insert_pos:]
Insert(c, pos, frag) == SubSeq(c, 1, pos) \o frag \o SubSeq(c, pos + 1, Len(c))

(* The patterns of the script *)
BeginFileRefSection == Marker("Begin", "PBXFileReference")
BeginGroupSection == Marker("Begin", "PBXGroup")
EndGroupSection == Marker("End", "PBXGroup")
EndSourcesSection == Marker("End", "PBXSourcesBuildPhase")
EndFrameworksSection == Marker("End", "PBXFrameworksBuildPhase")
EndNativeTargetSection == Marker("End", "PBXNativeTarget")
EndConfigListSection == Marker("End", "XCConfigurationList")
MainTargetPattern == << IdTok(MainTargetId) >> \o Comment("PaykitDemo")
MainGroupPrefix == << IdTok(MainGroupId), EqOpen >>
ProductsGroupPrefix == << IdTok(ProductsGroupId) >> \o Comment("Products") \o << EqOpen >>
TargetsPattern == << T("targets = (") >>
TargetAttrsPattern == << T("TargetAttributes = {") >>

-----------------------------------------------------------------------------
(* Input files: PaykitDemo.xcodeproj/project.pbxproj as the script's patterns
   expect it, with some anchors missing, or with one more piece of anchor
   text somewhere in it *)

AnchorNames == {"main_target", "file_ref_section", "group_section", "main_group", "group_end",
                "products_group", "sources_phase_end", "frameworks_phase_end",
                "native_target_end", "targets", "config_list_end", "target_attrs"}

\* tok where the anchor is kept, other text where the file lacks the anchor
Keep(missing, anchor, tok) == IF anchor \in missing THEN T("...") ELSE tok

KeepMarker(missing, anchor, which, section) ==
    << Slash, Keep(missing, anchor, Marker(which, section)[2]), Slash >>

\* a record  id /* name */ = { isa = section; body };
Record(id, name, section, body) ==
    << IdTok(id) >> \o Comment(name) \o << EqOpen, Isa(section), T(body), RBrace, T(";\n") >>

\* ' /* PaykitDemo */' after the main target's identifier
MainTargetComment(missing) ==
    << Keep(missing, "main_target", Comment("PaykitDemo")[1]), Slash >>

ProjectFile(missing) ==
    << T("// !$*UTF8*$!\n{ archiveVersion = 1; objectVersion = 77; objects = {") >> \o
    KeepMarker(missing, "file_ref_section", "Begin", "PBXFileReference") \o
    Record(AppProductId, "PaykitDemo.app", "PBXFileReference",
           " explicitFileType = wrapper.application; path = PaykitDemo.app; ") \o
    Marker("End", "PBXFileReference") \o
    Marker("Begin", "PBXFrameworksBuildPhase") \o
    Record(AppFrameworksId, "Frameworks", "PBXFrameworksBuildPhase", " files = ( );") \o
    KeepMarker(missing, "frameworks_phase_end", "End", "PBXFrameworksBuildPhase") \o
    KeepMarker(missing, "group_section", "Begin", "PBXGroup") \o
    << IdTok(MainGroupId), EqOpen, Isa("PBXGroup"),
       Keep(missing, "main_group", Children),
       IdTok(ProductsGroupId) >> \o Comment("Products") \o
    << T(", ); sourceTree = \"<group>\";"), RBrace, T(";\n"),
       IdTok(ProductsGroupId) >> \o Comment("Products") \o
    << EqOpen, Isa("PBXGroup"),
       Keep(missing, "products_group", Children),
       IdTok(AppProductId) >> \o Comment("PaykitDemo.app") \o
    << T(", ); name = Products; sourceTree = \"<group>\";"), RBrace, T(";\n") >> \o
    KeepMarker(missing, "group_end", "End", "PBXGroup") \o
    Marker("Begin", "PBXNativeTarget") \o
    << IdTok(MainTargetId) >> \o MainTargetComment(missing) \o
    << EqOpen, Isa("PBXNativeTarget"),
       T(" buildConfigurationList = 5224F6012EED89A600A4DEB4; buildPhases = ( 5224F5F12EED89A600A4DEB4, 5224F5F22EED89A600A4DEB4, ); name = PaykitDemo; productReference = 5224F5F52EED89A600A4DEB4;"),
       RBrace, T(";\n") >> \o
    KeepMarker(missing, "native_target_end", "End", "PBXNativeTarget") \o
    Marker("Begin", "PBXProject") \o
    << IdTok(ProjectId) >> \o Comment("Project object") \o
    << EqOpen, Isa("PBXProject"), T(" attributes = {"),
       Keep(missing, "target_attrs", TargetAttrsPattern[1]),
       IdTok(MainTargetId), EqOpen, T("CreatedOnToolsVersion = 26.1.1;"),
       RBrace, T(";"), RBrace, T(";"), RBrace,
       T("; mainGroup = 5224F5EC2EED89A600A4DEB4;"),
       Keep(missing, "targets", TargetsPattern[1]),
       IdTok(MainTargetId) >> \o MainTargetComment(missing) \o
    << T(", );"), RBrace, T(";\n") >> \o
    Marker("End", "PBXProject") \o
    Marker("Begin", "PBXSourcesBuildPhase") \o
    Record(AppSourcesId, "Sources", "PBXSourcesBuildPhase", " files = ( );") \o
    KeepMarker(missing, "sources_phase_end", "End", "PBXSourcesBuildPhase") \o
    Marker("Begin", "XCBuildConfiguration") \o
    << IdTok(AppDebugId) >> \o Comment("Debug") \o
    << EqOpen, Isa("XCBuildConfiguration"), T(" buildSettings = { PRODUCT_NAME = \"$(TARGET_NAME)\";"),
       RBrace, T("; name = Debug;"), RBrace, T(";\n") >> \o
    Marker("End", "XCBuildConfiguration") \o
    Marker("Begin", "XCConfigurationList") \o
    Record(AppConfigListId, "Build configuration list for PBXNativeTarget \"PaykitDemo\"",
           "XCConfigurationList", " buildConfigurations = ( 5224F6022EED89A600A4DEB4, );") \o
    KeepMarker(missing, "config_list_end", "End", "XCConfigurationList") \o
    << RBrace, T("; rootObject = 5224F5ED2EED89A600A4DEB4;"), RBrace >>

\* the project file with every anchor in it
CanonicalFile == ProjectFile({})

\* project files that lack at most MaxMissing anchors
FilesWithMissingAnchors ==
    {ProjectFile(m) : m \in {x \in SUBSET AnchorNames : Cardinality(x) <= MaxMissing}}

\* pieces of anchor text
ScriptMarkers ==
    {BeginFileRefSection, BeginGroupSection, EndGroupSection, EndSourcesSection,
     EndFrameworksSection, EndNativeTargetSection, EndConfigListSection}

Pieces ==
    ScriptMarkers
    \cup {<< Children >>, << RBrace >>, MainGroupPrefix, ProductsGroupPrefix,
          TargetsPattern, TargetAttrsPattern, MainTargetPattern}

\* the project file with one more piece of anchor text at some place
FilesWithExtraPiece ==
    {Insert(CanonicalFile, p, piece) : p \in 0..Len(CanonicalFile), piece \in Pieces}

\* the text of an anchor: a marker, whole or without its first '/' (after a '/' of the
\* file it makes a marker that shares that '/'), or the last token of a pattern
AnchorPieces(anchor) ==
    LET marker == CASE anchor = "file_ref_section" -> BeginFileRefSection
                    [] anchor = "group_section" -> BeginGroupSection
                    [] anchor = "group_end" -> EndGroupSection
                    [] anchor = "sources_phase_end" -> EndSourcesSection
                    [] anchor = "frameworks_phase_end" -> EndFrameworksSection
                    [] anchor = "native_target_end" -> EndNativeTargetSection
                    [] anchor = "config_list_end" -> EndConfigListSection
                    [] OTHER -> <<>>
    IN  CASE anchor = "main_target" -> {MainTargetPattern}
          [] anchor \in {"main_group", "products_group"} -> {<< Children >>}
          [] anchor = "targets" -> {TargetsPattern}
          [] anchor = "target_attrs" -> {TargetAttrsPattern}
          [] OTHER -> {marker, SubSeq(marker, 2, 3)}

\* the project file with one anchor's text at another place
FilesWithMovedAnchor ==
    UNION {{Insert(ProjectFile({a}), p, piece) : p \in 0..Len(CanonicalFile),
                                                  piece \in AnchorPieces(a)} : a \in AnchorNames}

-----------------------------------------------------------------------------
(* State *)

NoIds == [test_target_id |-> "", test_product_id |-> "", test_sources_phase_id |-> "",
          test_frameworks_phase_id |-> "", test_build_config_list_id |-> "",
          test_debug_config_id |-> "", test_release_config_id |-> "",
          test_group_id |-> ""]

DefaultTape == [add |-> 171, mul |-> 37, step |-> 53]

\* entropy tapes: one on which every call draws the same bytes, two on which
\* the calls draw different bytes
EntropyTapes == {[add |-> 0, mul |-> 0, step |-> 0], DefaultTape,
                 [add |-> 9, mul |-> 101, step |-> 16]}

\* the state when the script starts on file f with entropy tape t
Start(f, t) ==
    /\ file = f
    /\ tape = t
    /\ prevFile = f
    /\ content = <<>>
    /\ origin = <<>>
    /\ pc = "read"
    /\ ids = NoIds
    /\ group_section = FALSE
    /\ calls = 0
    /\ ret = "none"
    /\ exitStatus = -1
    /\ writes = 0
    /\ run = 1

Init ==
    \/ \E f \in FilesWithMissingAnchors : \E t \in EntropyTapes : Start(f, t)
    \/ \E f \in FilesWithExtraPiece : Start(f, DefaultTape)
    \/ \E f \in FilesWithMovedAnchor : Start(f, DefaultTape)

InitRerun ==
    \E f \in FilesWithMissingAnchors : \E t \in EntropyTapes : Start(f, t)

\* more entropy tapes, for the identifiers
ManyTapes ==
    {[add |-> a, mul |-> m, step |-> st] :
        a \in {0, 15, 171, 255}, m \in {0, 37, 101, 255}, st \in {0, 1, 16, 53}}

InitIds ==
    \E t \in ManyTapes : Start(CanonicalFile, t)

-----------------------------------------------------------------------------
(* add_test_target *)

\* with open(project_path, 'r') as f: content = f.read()
ReadFile ==
    /\ pc = "read"
    /\ content' = file
    /\ origin' = OriginOfFile(file)
    /\ pc' = "generate_ids"
    /\ UNCHANGED <<file, prevFile, ids, group_section, tape, calls, ret, exitStatus,
                   writes, run>>

\* the eight generate_id() calls before the first search
GenerateIds ==
    /\ pc = "generate_ids"
    /\ ids' = [test_target_id |-> NthId(tape, calls + 1),
               test_product_id |-> NthId(tape, calls + 2),
               test_sources_phase_id |-> NthId(tape, calls + 3),
               test_frameworks_phase_id |-> NthId(tape, calls + 4),
               test_build_config_list_id |-> NthId(tape, calls + 5),
               test_debug_config_id |-> NthId(tape, calls + 6),
               test_release_config_id |-> NthId(tape, calls + 7),
               test_group_id |-> NthId(tape, calls + 8)]
    /\ calls' = calls + 8
    /\ pc' = "find_main_target"
    /\ UNCHANGED <<file, content, origin, prevFile, group_section, tape, ret,
                   exitStatus, writes, run>>

\* mutant of FindMainTarget: the missing anchor is reported but the function goes on
FindMainTarget_NoAbort ==
    /\ pc = "find_main_target"
    /\ pc' = "file_ref"
    /\ UNCHANGED <<file, content, origin, prevFile, ids, group_section, tape, calls, ret,
                   exitStatus, writes, run>>

\* ' /* PaykitDemoTests */ = { isa = PBXNativeTarget;' of a test target's record
TestTargetRecord == TestsComment \o << EqOpen, Isa("PBXNativeTarget") >>

\* mutant of FindMainTarget: a project that already has the test target is refused
FindMainTarget_RefusesSecondRun ==
    /\ pc = "find_main_target"
    /\ IF /\ SearchLiteral(content, MainTargetPattern).found
          /\ ~SearchLiteral(content, TestTargetRecord).found
       THEN /\ pc' = "file_ref"
            /\ ret' = ret
       ELSE /\ pc' = "main"
            /\ ret' = "False"
    /\ UNCHANGED <<file, content, origin, prevFile, ids, group_section, tape, calls,
                   exitStatus, writes, run>>

\* main_target_match: without it the function prints an error and returns False
FindMainTarget ==
    /\ pc = "find_main_target"
    /\ IF SearchLiteral(content, MainTargetPattern).found
       THEN /\ pc' = "file_ref"
            /\ ret' = ret
       ELSE /\ pc' = "main"
            /\ ret' = "False"
    /\ UNCHANGED <<file, content, origin, prevFile, ids, group_section, tape, calls,
                   exitStatus, writes, run>>

\* the ten insertion steps, in the order of the code
Steps == 1..10

\* the re.search of step s on content c
StepSearch(s, c) ==
    CASE s = 1 -> SearchLiteral(c, BeginFileRefSection)
      [] s = 2 -> SearchGroup(c, MainGroupPrefix)
      [] s = 3 -> SearchLiteral(c, EndGroupSection)
      [] s = 4 -> SearchGroup(c, ProductsGroupPrefix)
      [] s = 5 -> SearchLiteral(c, EndSourcesSection)
      [] s = 6 -> SearchLiteral(c, EndFrameworksSection)
      [] s = 7 -> SearchLiteral(c, EndNativeTargetSection)
      [] s = 8 -> SearchLiteral(c, TargetsPattern)
      [] s = 9 -> SearchLiteral(c, EndConfigListSection)
      [] s = 10 -> SearchLiteral(c, TargetAttrsPattern)

\* the steps that insert at match.end(); the others insert at match.start()
InsertsAfter == {1, 2, 4, 8, 10}

\* mutant of StepPos: every step inserts at match.start()
StepPos_AlwaysStart(s, m) == StartPos(m)

\* insert_pos of step s for its match m
StepPos(s, m) == IF s \in InsertsAfter THEN EndPos(m) ELSE StartPos(m)

\* the text step s inserts; dep is the value of the generate_id() call of step 7
StepFragment(s, i, dep) ==
    CASE s = 1 -> FileRefFragment(i)
      [] s = 2 -> GroupRefFragment(i)
      [] s = 3 -> GroupDefFragment(i)
      [] s = 4 -> ProductRefFragment(i)
      [] s = 5 -> SourcesPhaseFragment(i)
      [] s = 6 -> FrameworksPhaseFragment(i)
      [] s = 7 -> NativeTargetFragment(i, dep)
      [] s = 8 -> TargetRefFragment(i)
      [] s = 9 -> ConfigFragment(i)
      [] s = 10 -> TargetAttrsFragment(i)

\* the steps nested in 'if group_section:'
UnderGroupSection == {2, 3}

\* content[:insert_pos] + fragment + content[insert_pos:] when the anchor was found
Splice(c, m, pos, frag) ==
    IF m.found THEN Insert(c, pos, frag) ELSE c

\* the origin of the content after that insertion step
SpliceOrigin(o, m, pos, frag, s) ==
    IF m.found THEN Insert(o, pos, OriginOfFragment(frag, s)) ELSE o

\* mutant of InsertionStep: the anchor is searched in the text as it was read,
\* and its offset there is used on the content as modified since
InsertionStep_StaleOffsets(s, dep) ==
    \E m \in {StepSearch(s, prevFile)} :
    \E frag \in {StepFragment(s, ids, dep)} :
        /\ content' = Splice(content, m, StepPos(s, m), frag)
        /\ origin' = SpliceOrigin(origin, m, StepPos(s, m), frag, s)

\* insertion step s: search, and insert when the search matched
InsertionStep(s, dep) ==
    \E m \in {StepSearch(s, content)} :
    \E frag \in {StepFragment(s, ids, dep)} :
        /\ content' = Splice(content, m, StepPos(s, m), frag)
        /\ origin' = SpliceOrigin(origin, m, StepPos(s, m), frag, s)

\* step 1: the product file reference after 'Begin PBXFileReference section'
FileRefStep ==
    /\ pc = "file_ref"
    /\ InsertionStep(1, "")
    /\ pc' = "group_ref"
    /\ UNCHANGED <<file, prevFile, ids, group_section, tape, calls, ret,
                   exitStatus, writes, run>>

\* step 2: under 'Begin PBXGroup section', the test group in the main group's children
GroupRefStep ==
    /\ pc = "group_ref"
    /\ group_section' = SearchLiteral(content, BeginGroupSection).found
    /\ IF group_section' THEN InsertionStep(2, "") ELSE UNCHANGED <<content, origin>>
    /\ pc' = "group_def"
    /\ UNCHANGED <<file, prevFile, ids, tape, calls, ret, exitStatus, writes, run>>

\* step 3: under 'Begin PBXGroup section', the test group before 'End PBXGroup section'
GroupDefStep ==
    /\ pc = "group_def"
    /\ IF group_section THEN InsertionStep(3, "") ELSE UNCHANGED <<content, origin>>
    /\ pc' = "products"
    /\ UNCHANGED <<file, prevFile, ids, group_section, tape, calls, ret,
                   exitStatus, writes, run>>

\* step 4: the product in the Products group's children
ProductsStep ==
    /\ pc = "products"
    /\ InsertionStep(4, "")
    /\ pc' = "sources"
    /\ UNCHANGED <<file, prevFile, ids, group_section, tape, calls, ret,
                   exitStatus, writes, run>>

\* step 5: the Sources phase before 'End PBXSourcesBuildPhase section'
SourcesStep ==
    /\ pc = "sources"
    /\ InsertionStep(5, "")
    /\ pc' = "frameworks"
    /\ UNCHANGED <<file, prevFile, ids, group_section, tape, calls, ret,
                   exitStatus, writes, run>>

\* step 6: the Frameworks phase before 'End PBXFrameworksBuildPhase section'
FrameworksStep ==
    /\ pc = "frameworks"
    /\ InsertionStep(6, "")
    /\ pc' = "native_target"
    /\ UNCHANGED <<file, prevFile, ids, group_section, tape, calls, ret,
                   exitStatus, writes, run>>

\* mutant of NativeTargetStep: a missing anchor is an error, as for the main target
NativeTargetStep_AbortsWhenMissing ==
    /\ pc = "native_target"
    /\ InsertionStep(7, NthId(tape, calls + 1))
    /\ IF StepSearch(7, content).found
       THEN /\ calls' = calls + 1
            /\ pc' = "targets"
            /\ ret' = ret
       ELSE /\ calls' = calls
            /\ pc' = "main"
            /\ ret' = "False"
    /\ UNCHANGED <<file, prevFile, ids, group_section, tape, exitStatus, writes, run>>

\* step 7: the native target before 'End PBXNativeTarget section'; the f-string
\* calls generate_id() once more, and only when the anchor was found
NativeTargetStep ==
    /\ pc = "native_target"
    /\ InsertionStep(7, NthId(tape, calls + 1))
    /\ calls' = IF StepSearch(7, content).found THEN calls + 1 ELSE calls
    /\ pc' = "targets"
    /\ UNCHANGED <<file, prevFile, ids, group_section, tape, ret,
                   exitStatus, writes, run>>

\* step 8: the target in the project's targets list
TargetsStep ==
    /\ pc = "targets"
    /\ InsertionStep(8, "")
    /\ pc' = "config"
    /\ UNCHANGED <<file, prevFile, ids, group_section, tape, calls, ret,
                   exitStatus, writes, run>>

\* step 9: the build configurations before 'End XCConfigurationList section'
ConfigStep ==
    /\ pc = "config"
    /\ InsertionStep(9, "")
    /\ pc' = "target_attrs"
    /\ UNCHANGED <<file, prevFile, ids, group_section, tape, calls, ret,
                   exitStatus, writes, run>>

\* step 10: the target's attributes after 'TargetAttributes = {'
TargetAttrsStep ==
    /\ pc = "target_attrs"
    /\ InsertionStep(10, "")
    /\ pc' = "write"
    /\ UNCHANGED <<file, prevFile, ids, group_section, tape, calls, ret,
                   exitStatus, writes, run>>

\* with open(project_path, 'w') as f: f.write(content); return True
WriteBack ==
    /\ pc = "write"
    /\ file' = content
    /\ writes' = writes + 1
    /\ ret' = "True"
    /\ pc' = "main"
    /\ UNCHANGED <<content, origin, prevFile, ids, group_section, tape, calls,
                   exitStatus, run>>

\* __main__: sys.exit(0) when add_test_target returned True, sys.exit(1) otherwise
Main ==
    /\ pc = "main"
    /\ exitStatus' = IF ret = "True" THEN 0 ELSE 1
    /\ pc' = "exit"
    /\ UNCHANGED <<file, content, origin, prevFile, ids, group_section, tape, calls,
                   ret, writes, run>>

\* the script is started again on the file as it is now
Rerun ==
    /\ pc = "exit"
    /\ run < MaxRuns
    /\ run' = run + 1
    /\ prevFile' = file
    /\ content' = <<>>
    /\ origin' = <<>>
    /\ ids' = NoIds
    /\ group_section' = FALSE
    /\ ret' = "none"
    /\ exitStatus' = -1
    /\ writes' = 0
    /\ pc' = "read"
    /\ UNCHANGED <<file, tape, calls>>

\* one run of the script
RunOnce ==
    \/ ReadFile
    \/ GenerateIds
    \/ FindMainTarget
    \/ FileRefStep
    \/ GroupRefStep
    \/ GroupDefStep
    \/ ProductsStep
    \/ SourcesStep
    \/ FrameworksStep
    \/ NativeTargetStep
    \/ TargetsStep
    \/ ConfigStep
    \/ TargetAttrsStep
    \/ WriteBack
    \/ Main

Next == RunOnce

NextRerun ==
    \/ RunOnce
    \/ Rerun

\* one run of the script on every input file
Spec == Init /\ [][Next]_vars

\* up to MaxRuns runs of the script, the first on a project file with anchors missing
RerunSpec == InitRerun /\ [][NextRerun]_vars

\* one run of the script on the project file, on every one of the entropy tapes
IdSpec == InitIds /\ [][Next]_vars

-----------------------------------------------------------------------------
(* What the claims speak of *)

\* add_test_target has returned
Returned == pc \in {"main", "exit"}

\* the main-target anchor occurs in text f
MainTargetPresent(f) == SearchLiteral(f, MainTargetPattern).found

\* the anchor of step s occurs in text f (steps 2 and 3 also need the
\* 'Begin PBXGroup section' marker)
Present(s, f) ==
    /\ s \in UnderGroupSection => SearchLiteral(f, BeginGroupSection).found
    /\ StepSearch(s, f).found

AllAnchorsPresent(f) == MainTargetPresent(f) /\ \A s \in Steps : Present(s, f)

\* the positions of content that step s built
BuiltBy(s) == {i \in DOMAIN origin : origin[i] = 0 - s}

\* step s has inserted its fragment
Applied(s) == \E i \in DOMAIN origin : origin[i] = 0 - s

\* the value of the generate_id() call inside the native target fragment
Dep == NthId(tape, calls)

\* the tokens of content at the positions lo..hi of a set of positions
Block(P) == SubSeq(content, Min(P), Max(P))

\* content, each token with its origin
Tagged == [i \in DOMAIN content |-> << content[i], origin[i] >>]

\* a fragment as step s tags it
TaggedFragment(frag, s) == [i \in DOMAIN frag |-> << frag[i], 0 - s >>]

\* in the tagged content z, the tokens that step s built are its fragment, in order
BuiltFragment(z, s) ==
    SelectSeq(z, LAMBDA x : x[2] = 0 - s) = TaggedFragment(StepFragment(s, ids, Dep), s)

\* the step add_test_target is about to run
StepAt ==
    CASE pc = "file_ref" -> 1 [] pc = "group_ref" -> 2 [] pc = "group_def" -> 3
      [] pc = "products" -> 4 [] pc = "sources" -> 5 [] pc = "frameworks" -> 6
      [] pc = "native_target" -> 7 [] pc = "targets" -> 8 [] pc = "config" -> 9
      [] pc = "target_attrs" -> 10 [] OTHER -> 0

\* the match of every step's anchor in text f; no match for a step whose anchor
\* is not present
Matches(f) ==
    LET Gated(group_found) ==
            [s \in Steps |-> IF s \in UnderGroupSection /\ ~group_found THEN NoMatch
                             ELSE StepSearch(s, f)]
    IN  Gated(SearchLiteral(f, BeginGroupSection).found)

\* position p lies strictly inside the tokens first..last
StrictlyInside(p, first, last) == first <= p /\ p < last

\* the records of text f that open with a group prefix: from the prefix to the
\* token before the next '}'
GroupRecords(f, prefix) ==
    {<< i, NextBrace(f, i + Len(prefix) - 1) - 1 >> :
        i \in {k \in 1..(Len(f) - Len(prefix) + 1) : OccursAt(f, prefix, k)}}

\* the insertion points of the steps present in f, given their matches M
InsertionPoints(M) == [s \in {t \in Steps : M[t].found} |-> StepPos(s, M[s])]

\* The anchors of text f are separate: no step's insertion point lies strictly
\* inside the text matched by another step's anchor or by the 'Begin PBXGroup
\* section' marker, nor, for a step other than the group's own, inside a record
\* that opens with the main-group or the Products-group prefix
SeparateFor(f, M, pts, begin_group) ==
    /\ \A s \in DOMAIN pts : \A t \in DOMAIN pts :
          s # t => ~StrictlyInside(pts[t], M[s].first, M[s].last)
    /\ begin_group.found =>
          \A t \in DOMAIN pts : ~StrictlyInside(pts[t], begin_group.first, begin_group.last)
    /\ \A r \in GroupRecords(f, MainGroupPrefix) :
          \A t \in DOMAIN pts \ {2} : ~(r[1] <= pts[t] /\ pts[t] <= r[2])
    /\ \A r \in GroupRecords(f, ProductsGroupPrefix) :
          \A t \in DOMAIN pts \ {4} : ~(r[1] <= pts[t] /\ pts[t] <= r[2])

\* the anchors of f are separate, given the matches M
SeparateGiven(f, M) ==
    SeparateFor(f, M, InsertionPoints(M), SearchLiteral(f, BeginGroupSection))

Separate(f) == \A M \in {Matches(f)} : SeparateGiven(f, M)

\* where the fragment of step s goes when all fragments are inserted at once:
\* by position, at one position after an anchor's end goes before what goes before an anchor's
\* start, and then by step
Rank(s, pts) == (2 * pts[s] + (IF s \in InsertsAfter THEN 0 ELSE 1)) * 16 + s

\* text c with the fragments of the steps S inserted at their points, the last
\* in rank first, so that the points before it stay where they are
RECURSIVE InsertAll(_, _, _)
InsertAll(c, S, pts) ==
    IF S = {} THEN c
    ELSE \* the step of S with the greatest rank
         LET s == CHOOSE x \in S : \A y \in S : Rank(y, pts) <= Rank(x, pts)
         IN  InsertAll(Insert(c, pts[s], StepFragment(s, ids, Dep)), S \ {s}, pts)

\* all fragments inserted at once at the matches M of the anchors in the text f
SimultaneousGiven(f, M) ==
    LET InsertAt(pts) == InsertAll(f, DOMAIN pts, pts)
    IN  InsertAt(InsertionPoints(M))

Simultaneous(f) == SimultaneousGiven(f, Matches(f))

\* content c after step s, run on its own
StepResult(s, c) ==
    LET SpliceAt(m) == Splice(c, m, StepPos(s, m), StepFragment(s, ids, Dep))
    IN  IF s \in UnderGroupSection /\ ~SearchLiteral(c, BeginGroupSection).found
        THEN c
        ELSE SpliceAt(StepSearch(s, c))

\* the content after the steps of the sequence order, run one after the other
RECURSIVE RunSteps(_, _)
RunSteps(c, order) ==
    IF order = <<>> THEN c ELSE RunSteps(StepResult(Head(order), c), Tail(order))

CodeOrder == << 1, 2, 3, 4, 5, 6, 7, 8, 9, 10 >>
ReverseOrder == << 10, 9, 8, 7, 6, 5, 4, 3, 2, 1 >>
ShuffledOrder == << 6, 2, 9, 4, 1, 8, 3, 10, 5, 7 >>

\* the fragment of step s stands whole right at the anchor that step s matches
\* in the text that was read (match m): after its last token or before its
\* first, and for a marker with the marker's tokens still side by side
PlacedAt(s, m, P) ==
    /\ P # {}
    /\ Max(P) - Min(P) + 1 = Cardinality(P)
    /\ Block(P) = StepFragment(s, ids, Dep)
    /\ IF s \in InsertsAfter
       THEN /\ Min(P) > 1
            /\ origin[Min(P) - 1] = m.last
            /\ s \notin {2, 4} =>
                 \A k \in 1..(m.last - m.first) :
                    Min(P) - 1 - k >= 1 /\ origin[Min(P) - 1 - k] = m.last - k
       ELSE /\ Max(P) < Len(content)
            /\ origin[Max(P) + 1] = m.first
            /\ \A k \in 1..(m.last - m.first) :
                  Max(P) + 1 + k <= Len(content) /\ origin[Max(P) + 1 + k] = m.first + k

\* every anchor is present, given the matches M of the steps' anchors in f
AllPresent(f, M) == MainTargetPresent(f) /\ \A s \in Steps : M[s].found

\* every fragment stands at its anchor, given the matches M in the text read
AllPlaced(M) == \A s \in Steps : PlacedAt(s, M[s], BuiltBy(s))

\* the steps applied are those whose anchor is present, given the matches M
AppliedIfPresent(M) == \A s \in Steps : Applied(s) <=> M[s].found


-----------------------------------------------------------------------------
(* C1: when the text read has no main-target anchor, add_test_target returns
   False without inserting anything and without writing the file, and the
   script exits with status 1; the script exits with status 0 exactly when
   add_test_target returned True *)
C1_MissingMainTargetAborts ==
    /\ (pc # "read" /\ ~MainTargetPresent(prevFile)) =>
          /\ pc \in {"generate_ids", "find_main_target", "main", "exit"}
          /\ content = prevFile
          /\ file = prevFile
          /\ writes = 0
          /\ Returned => ret = "False"
          /\ pc = "exit" => exitStatus = 1
    /\ pc = "exit" => /\ exitStatus \in {0, 1}
                      /\ exitStatus = 0 <=> ret = "True"

C1_Witness ==
    /\ pc = "exit"
    /\ ~MainTargetPresent(prevFile)
    /\ ret = "False"
    /\ exitStatus = 1

(* C4: after any prefix of the insertion steps the text that was read is still
   there, token for token and in its order, the other tokens of the content
   are the fragments of the steps that have inserted, and the written file is
   that content: nothing is removed, replaced or reordered *)
C4_OnlyInserts ==
    pc # "read" =>
        /\ Len(origin) = Len(content)
        /\ SelectSeq(origin, LAMBDA x : x > 0) = [i \in 1..Len(prevFile) |-> i]
        /\ \A i \in DOMAIN content :
              IF origin[i] > 0 THEN content[i] = prevFile[origin[i]]
              ELSE (0 - origin[i]) \in Steps
        /\ (Returned /\ ret = "True") =>
              /\ file = content
              /\ \A z \in {Tagged} : \A s \in Steps : Applied(s) => BuiltFragment(z, s)

C4_Witness ==
    /\ pc = "exit"
    /\ ret = "True"
    /\ \A s \in Steps : Applied(s)
    /\ Len(file) > Len(prevFile)

(* C2 as stated: when every anchor is present in the text read, the written
   file holds all ten fragments, each whole and right at its own anchor: after
   the first 'Begin PBXFileReference section', after 'children = (' of the main
   group and of the Products group, after the first 'targets = (' and the first
   'TargetAttributes = {', and before the 'End ... section' markers *)
C2_AllFragmentsAtTheirAnchors ==
    (pc = "exit" /\ ret = "True") =>
        \A M \in {Matches(prevFile)} : AllPresent(prevFile, M) => AllPlaced(M)

(* C2 as amended: the same, for a text whose anchors are present and separate *)
C2_AllFragmentsAtSeparateAnchors ==
    (pc = "exit" /\ ret = "True") =>
        \A M \in {Matches(prevFile)} :
            (AllPresent(prevFile, M) /\ SeparateGiven(prevFile, M)) => AllPlaced(M)

C2_Witness ==
    /\ pc = "exit"
    /\ ret = "True"
    /\ prevFile # CanonicalFile
    /\ \A M \in {Matches(prevFile)} :
          AllPresent(prevFile, M) /\ SeparateGiven(prevFile, M) /\ AllPlaced(M)

\* the file is written once, at the end: not before add_test_target returns
WrittenOnceAtTheEnd ==
    /\ ~Returned => (writes = 0 /\ file = prevFile)
    /\ (Returned /\ ret = "True") => (writes = 1 /\ file = content)

(* C5 as stated: when the main-target anchor is present, whatever other anchors
   are missing, add_test_target returns True after writing the file once, at the
   end, and has applied exactly the steps whose own anchor is present in the
   text read (steps 2 and 3 also need 'Begin PBXGroup section') *)
C5_MissingAnchorsAreSkipped ==
    /\ WrittenOnceAtTheEnd
    /\ (pc = "exit" /\ MainTargetPresent(prevFile)) =>
          /\ ret = "True"
          /\ AppliedIfPresent(Matches(prevFile))

(* C5 as amended: the steps applied are exactly those whose anchor is present
   when the anchors of the text read are separate *)
C5_MissingSeparateAnchorsAreSkipped ==
    /\ WrittenOnceAtTheEnd
    /\ (pc = "exit" /\ MainTargetPresent(prevFile)) =>
          /\ ret = "True"
          /\ \A M \in {Matches(prevFile)} :
                SeparateGiven(prevFile, M) => AppliedIfPresent(M)

C5_Witness ==
    /\ pc = "exit"
    /\ ret = "True"
    /\ writes = 1
    /\ \A M \in {Matches(prevFile)} :
          /\ SeparateGiven(prevFile, M)
          /\ \E s \in Steps : ~M[s].found /\ ~Applied(s)
          /\ \E t \in Steps : M[t].found /\ Applied(t)

\* the match of the step about to run holds only text that was read
MatchesOnlyTextRead ==
    StepAt # 0 =>
        \A m \in {StepSearch(StepAt, content)} :
            m.found => \A i \in m.first..m.last : origin[i] > 0

(* C10 as stated: for every text read, no step's anchor matches inside or
   across text that an earlier step inserted, the written file is the text read
   with every fragment inserted at the first match of its anchor in the text
   read, and the steps run in the opposite order give the same file *)
C10_StepsDoNotInterfere ==
    /\ MatchesOnlyTextRead
    /\ (pc = "exit" /\ ret = "True") =>
          /\ file = Simultaneous(prevFile)
          /\ file = RunSteps(prevFile, ReverseOrder)
          /\ file = RunSteps(prevFile, ShuffledOrder)

(* C10 as amended: the same, for a text read whose anchors are separate *)
C10_SeparateStepsDoNotInterfere ==
    /\ ~MatchesOnlyTextRead => ~Separate(prevFile)
    /\ (pc = "exit" /\ ret = "True") =>
          \A M \in {Matches(prevFile)} :
              SeparateGiven(prevFile, M) =>
                  /\ file = SimultaneousGiven(prevFile, M)
                  /\ file = RunSteps(prevFile, ReverseOrder)
                  /\ file = RunSteps(prevFile, ShuffledOrder)

C10_Witness ==
    /\ pc = "exit"
    /\ ret = "True"
    /\ Separate(prevFile)
    /\ \A s \in Steps : Applied(s)
    /\ prevFile # CanonicalFile
    /\ file = Simultaneous(prevFile)

-----------------------------------------------------------------------------
(* Object definitions and references in the project text *)

\* token k of c is an identifier that opens an object definition of type
\* section:  id = { isa = section;  or  id /* name */ = { isa = section;
DefinitionAt(c, k, section) ==
    /\ c[k] # Slash
    /\ \/ k + 2 <= Len(c) /\ c[k + 1] = EqOpen /\ c[k + 2] = Isa(section)
       \/ k + 4 <= Len(c) /\ c[k + 2] = Slash /\ c[k + 3] = EqOpen
                          /\ c[k + 4] = Isa(section)

\* the object that identifier x names is defined in text c
Defined(c, x) ==
    \E k \in DOMAIN c : c[k] = x /\ \E section \in Sections : DefinitionAt(c, k, section)

\* text c has the record  id /* name */ = { isa = section;
HasRecord(c, id, comment, section) ==
    SearchLiteral(c, << IdTok(id) >> \o comment \o << EqOpen, Isa(section) >>).found

\* where the list opened by the first 'targets = (' of c ends: at the first
\* token after it that closes a list, or at the end of the text
ListCloses == {T(", );"), T(");"), RBrace}
TargetsListEnd(c, open) ==
    IF \E k \in (open + 1)..Len(c) : c[k] \in ListCloses
    THEN Min({k \in (open + 1)..Len(c) : c[k] \in ListCloses})
    ELSE Len(c) + 1

\* the positions of the entries of the first targets list of c that carry the
\* comment  /* PaykitDemoTests */
TestTargetEntries(c) ==
    LET Entries(m) ==
            IF ~m.found THEN {}
            ELSE {k \in (m.last + 1)..(TargetsListEnd(c, m.last) - 1) :
                    k > m.last + 1 /\ c[k] = TestsComment[1]}
    IN  Entries(SearchLiteral(c, TargetsPattern))

\* identifier id is an entry of the first targets list of c
InTargetsList(c, id) == \E k \in TestTargetEntries(c) : c[k - 1] = id

\* the records of test targets in c
TestTargetRecords(c) ==
    {k \in 1..(Len(c) - Len(TestTargetRecord) + 1) : OccursAt(c, TestTargetRecord, k)}

\* the identifiers generate_id has returned so far
GeneratedIds == {NthId(tape, n) : n \in 1..calls}

\* token k of content is an identifier in inserted text: one of the generated
\* identifiers or the main target's
InsertedIdAt(k) ==
    /\ origin[k] < 0
    /\ content[k] \in GeneratedIds \cup {MainTargetId}

\* token k of content stands in inserted text where a fragment has an
\* identifier: before  = {  or before a comment  /* name */
IdPlaceAt(k) ==
    /\ origin[k] < 0
    /\ content[k] # Slash
    /\ \/ k + 1 <= Len(content) /\ origin[k + 1] = origin[k] /\ content[k + 1] = EqOpen
       \/ k + 2 <= Len(content) /\ origin[k + 1] = origin[k] /\ origin[k + 2] = origin[k]
                                /\ content[k + 2] = Slash

\* token k of c lies between the markers of section:  after a 'Begin section'
\* marker and before an 'End section' marker
InSection(c, k, section) ==
    /\ \E i \in 1..(k - 1) : i + 2 <= Len(c) /\ OccursAt(c, Marker("Begin", section), i)
    /\ \E j \in (k + 1)..(Len(c) - 2) : OccursAt(c, Marker("End", section), j)

-----------------------------------------------------------------------------
(* C3: whenever add_test_target returns True, the file it wrote has the
   PaykitDemoTests native target record, the record's identifier is in the
   project's targets list, and the Sources phase, the Frameworks phase, the
   product file reference and the build configuration list that the record
   refers to are defined in the file *)
C3_TrueMeansTargetAdded ==
    (pc = "exit" /\ ret = "True") =>
        /\ exitStatus = 0
        /\ HasRecord(file, ids.test_target_id, TestsComment, "PBXNativeTarget")
        /\ InTargetsList(file, ids.test_target_id)
        /\ HasRecord(file, ids.test_sources_phase_id, Comment("Sources"), "PBXSourcesBuildPhase")
        /\ HasRecord(file, ids.test_frameworks_phase_id, Comment("Frameworks"),
                     "PBXFrameworksBuildPhase")
        /\ HasRecord(file, ids.test_product_id, XctestComment, "PBXFileReference")
        /\ HasRecord(file, ids.test_build_config_list_id, ConfigListComment,
                     "XCConfigurationList")

(* C6: a run on the file written by successful runs on a project with every
   anchor present returns True again and exits with status 0, applies all ten
   steps with identifiers from nine more calls of generate_id, and writes a
   file that differs from the one it read and has one more PaykitDemoTests
   native target record and one more PaykitDemoTests entry in the targets list:
   two of each after the second run *)
C6_RerunInsertsAgain ==
    (run >= 2 /\ pc = "exit") =>
        \A M \in {Matches(prevFile)} :
            (AllPresent(prevFile, M) /\ Cardinality(TestTargetRecords(prevFile)) = run - 1) =>
                /\ ret = "True"
                /\ exitStatus = 0
                /\ \A s \in Steps : Applied(s)
                /\ calls = 9 * run
                /\ file # prevFile
                /\ Cardinality(TestTargetRecords(file)) = run
                /\ Cardinality(TestTargetEntries(file)) = run
                /\ HasRecord(file, ids.test_target_id, TestsComment, "PBXNativeTarget")
                /\ InTargetsList(file, ids.test_target_id)

C6_Witness ==
    /\ run = 2
    /\ pc = "exit"
    /\ ret = "True"
    /\ AllAnchorsPresent(prevFile)
    /\ Cardinality(TestTargetRecords(prevFile)) = 1
    /\ Cardinality(TestTargetRecords(file)) = 2
    /\ Cardinality(TestTargetEntries(file)) = 2
    /\ ~HasRecord(prevFile, ids.test_target_id, TestsComment, "PBXNativeTarget")

\* the characters are 24 uppercase hexadecimal digits
IsObjectId(chars) ==
    /\ Len(chars) = IdLen
    /\ \A j \in 1..Len(chars) : chars[j] \in UpperHexChars

(* C7: every call of generate_id returns 24 characters, each an uppercase
   hexadecimal digit; the eight named identifiers are such values, and so is
   every token that stands in the inserted text where a fragment has an
   identifier *)
C7_GeneratedIdsAre24UpperHex ==
    /\ \A n \in 1..calls : IsObjectId(generate_id(Urandom(tape, n)))
    /\ pc \notin {"read", "generate_ids"} =>
          \A field \in DOMAIN ids : ids[field] \in GeneratedIds
    /\ pc = "exit" =>
          \A G \in {GeneratedIds} :
              \A k \in DOMAIN content : IdPlaceAt(k) => content[k] \in G

C7_Witness ==
    /\ pc = "exit"
    /\ ret = "True"
    /\ calls = 9
    /\ \E k \in DOMAIN content : IdPlaceAt(k) /\ content[k] = Dep
    /\ \E n \in 1..calls : \E j \in 1..IdLen :
          generate_id(Urandom(tape, n))[j] \in {"A", "B", "C", "D", "E", "F"}
    /\ \E n \in 1..calls : \E m \in 1..calls : NthId(tape, n) # NthId(tape, m)

(* C8: when every anchor is present in the text read, every identifier in the
   inserted text that does not open an object definition there names an object
   that is defined in the written file *)
C8_NoDanglingReference ==
    (pc = "exit" /\ ret = "True" /\ AllAnchorsPresent(prevFile)) =>
        \A k \in DOMAIN content :
            (InsertedIdAt(k) /\ ~\E section \in Sections : DefinitionAt(content, k, section))
                => Defined(file, content[k])

(* C9: in the written file every object definition in the inserted text lies
   between the 'Begin T section' and the 'End T section' markers of its own
   isa type T *)
C9_DefinitionsInTheirSections ==
    (pc = "exit" /\ ret = "True") =>
        \A k \in DOMAIN content : \A section \in Sections :
            (origin[k] < 0 /\ DefinitionAt(content, k, section))
                => InSection(file, k, section)

====
